---- MODULE Spec2Model ----
(***************************************************************************)
(* wx-storage: the request loop of src/main.rs, the command dispatcher     *)
(* process_msg and the Store of src/lib.rs (put/get on the default column  *)
(* family, put_event/get_events on "events", put_fetch_failure/            *)
(* get_fetch_failures on "fetch_failures").                                *)
(*                                                                         *)
(* Bytes are naturals 0..255 and a byte string is a sequence of them.      *)
(* A column family is a function from the keys it holds to their values;   *)
(* its iterator walks the keys in bytewise (lexicographic) order, which is *)
(* the order of RocksDB's default comparator.  u64 arithmetic is done      *)
(* modulo 2^U64Bits.                                                       *)
(***************************************************************************)
EXTENDS Integers, Sequences, FiniteSets, TLC

\* ------------------------------------------------------------------ bounds

\* a run holds at most MaxRequests requests
MaxRequests == 4
\* the wall clock (microseconds) takes the values MinClock..MaxClock
MinClock == 9
MaxClock == 11
\* width of the u64 arithmetic of the model: values are 0..2^U64Bits - 1
U64Bits == 4
\* a shared Store has MaxCallers callers, which begin at most MaxCalls calls
MaxCallers == 2
MaxCalls == 2

U64Mod == 2 ^ U64Bits
U64Max == U64Mod - 1
ClockValues == MinClock..MaxClock

\* ------------------------------------------------------- program constants

\* Status::OkByte.value() and Status::ErrorByte.value()
OkByte == 0
ErrorByte == 1
\* size of a serialized u64 and of the transmuted record count
U64Len == 8

\* ------------------------------------------------------------------- bytes

RECURSIVE le_bytes(_, _)
\* the n low-order-first bytes of v
le_bytes(v, n) ==
    IF n = 0 THEN <<>> ELSE <<v % 256>> \o le_bytes(v \div 256, n - 1)

RECURSIVE le_value(_)
\* the number a little-endian byte string stands for
le_value(b) ==
    IF b = <<>> THEN 0 ELSE Head(b) + 256 * le_value(Tail(b))

\* bincode::serialize(&u64): 8 bytes, little endian
serialize_u64(v) == le_bytes(v, U64Len)

\* mem::transmute::<u64, [u8; 8]>(count): the 8 bytes of the integer in the
\* target's byte order, which is little endian on the targets whose clients
\* read the count back with bincode (tests/integration_tests.rs:121)
transmute(count) == le_bytes(count, U64Len)

RECURSIVE to_string(_)
\* u64::to_string: the decimal digits, most significant first, in ASCII
to_string(v) ==
    IF v < 10 THEN <<48 + v>> ELSE to_string(v \div 10) \o <<48 + (v % 10)>>

IsDigit(b) == b >= 48 /\ b <= 57

RECURSIVE digits_value(_, _)
\* the value of a digit string, saturating just above U64Max
digits_value(s, acc) ==
    IF s = <<>> THEN acc
    ELSE IF acc > U64Max THEN acc
    ELSE digits_value(Tail(s), acc * 10 + (Head(s) - 48))

\* str::parse::<u64>: an optional '+', then one or more decimal digits, the
\* value at most u64::MAX
parse_u64(s) ==
    LET d == IF s # <<>> /\ Head(s) = 43 THEN Tail(s) ELSE s
    IN  IF d = <<>> \/ \E i \in 1..Len(d) : ~IsDigit(d[i])
        THEN [ok |-> FALSE, value |-> 0]
        ELSE LET v == digits_value(d, 0)
             IN  IF v > U64Max THEN [ok |-> FALSE, value |-> 0]
                 ELSE [ok |-> TRUE, value |-> v]

RECURSIVE bytes_less(_, _)
\* bytewise order of two byte strings (a proper prefix comes first)
bytes_less(a, b) ==
    IF b = <<>> THEN FALSE
    ELSE IF a = <<>> THEN TRUE
    ELSE IF Head(a) # Head(b) THEN Head(a) < Head(b)
    ELSE bytes_less(Tail(a), Tail(b))

bytes_leq(a, b) == a = b \/ bytes_less(a, b)

\* ----------------------------------------------------------------- bincode

\* a length-prefixed byte string: u64 length, then the bytes
serialize_bytes(s) == serialize_u64(Len(s)) \o s

\* reads one length-prefixed byte string off the front of b
read_bytes(b) ==
    IF Len(b) < U64Len THEN [ok |-> FALSE, value |-> <<>>, rest |-> <<>>]
    ELSE LET n == le_value(SubSeq(b, 1, U64Len))
             r == SubSeq(b, U64Len + 1, Len(b))
         IN  IF Len(r) < n THEN [ok |-> FALSE, value |-> <<>>, rest |-> <<>>]
             ELSE [ok |-> TRUE, value |-> SubSeq(r, 1, n),
                   rest |-> SubSeq(r, n + 1, Len(r))]

\* a str must be UTF-8; of the bytes used here those below 128 are
IsUtf8(s) == \A i \in 1..Len(s) : s[i] < 128

\* deserialize::<&str>
deserialize_str(b) ==
    LET r == read_bytes(b)
    IN  IF r.ok /\ IsUtf8(r.value) THEN [ok |-> TRUE, value |-> r.value]
        ELSE [ok |-> FALSE, value |-> <<>>]

\* serialize(&(key, value)) with key: &str and value: &[u8]
serialize_kv(k, v) == serialize_bytes(k) \o serialize_bytes(v)

\* deserialize::<(&str, &[u8])>
deserialize_kv(b) ==
    LET k == read_bytes(b)
        v == read_bytes(k.rest)
    IN  IF k.ok /\ IsUtf8(k.value) /\ v.ok
        THEN [ok |-> TRUE, key |-> k.value, value |-> v.value]
        ELSE [ok |-> FALSE, key |-> <<>>, value |-> <<>>]

\* An Event: the fields the store leaves alone (event_ts stands for them)
\* and ingest_ts, each a u64.
EventLen == 2 * U64Len
serialize_event(e) == serialize_u64(e.event_ts) \o serialize_u64(e.ingest_ts)
deserialize_event(b) ==
    IF Len(b) < EventLen THEN [ok |-> FALSE, value |-> [event_ts |-> 0, ingest_ts |-> 0]]
    ELSE [ok |-> TRUE,
          value |-> [event_ts |-> le_value(SubSeq(b, 1, U64Len)),
                     ingest_ts |-> le_value(SubSeq(b, U64Len + 1, EventLen))]]

\* A FetchFailure {app: WxApp, ingest_ts: u64}: the enum's variant index as
\* a u32, then the u64.
FetchFailureLen == 4 + U64Len
serialize_fetch_failure(f) == le_bytes(f.app, 4) \o serialize_u64(f.ingest_ts)
deserialize_fetch_failure(b) ==
    IF Len(b) < FetchFailureLen THEN [ok |-> FALSE, value |-> [app |-> 0, ingest_ts |-> 0]]
    ELSE [ok |-> TRUE,
          value |-> [app |-> le_value(SubSeq(b, 1, 4)),
                     ingest_ts |-> le_value(SubSeq(b, 5, FetchFailureLen))]]

\* ------------------------------------------------------------------- state

VARIABLES
    pc,                             \* where main is: "recv", "dispatch", "crashed"
    msg,                            \* the request in main's Message buffer
    reply,                          \* the last payload handed to sock.send
    now,                            \* the wall clock, wx::util::get_system_micros()
    default_cf,                     \* the default column family of Store.db
    events_cf,                      \* the "events" column family
    fetch_failures_cf,              \* the "fetch_failures" column family
    event_threshold_micros,         \* Store.event_threshold_micros
    fetch_failure_threshold_micros, \* Store.fetch_failure_threshold_micros
    overflow_checks,                \* the build: TRUE panics on u64 overflow, FALSE wraps
    io_err,                         \* history: the engine failed during the last request
    last_put,                       \* history: key -> value of its last successful Put
    last_put_event,                 \* history: clock and returned ts of the last successful PutEvent
    received,                       \* history: the number of requests received
    sent,                           \* history: the number of responses sent
    overwritten,                    \* history: the last record that a write replaced
    callers,                        \* the callers that share the Store: where each is in its call
    observed,                       \* the <<key, value>> pairs the last shared scan walked
    calls                           \* history: the number of calls the callers have begun

vars == <<pc, msg, reply, now, default_cf, events_cf, fetch_failures_cf,
          event_threshold_micros, fetch_failure_threshold_micros,
          overflow_checks, io_err, last_put, last_put_event, received,
          sent, overwritten, callers, observed, calls>>

EmptyCf == [k \in {} |-> <<>>]

\* DB::put / DB::put_cf: upsert
cf_put(cf, key, value) ==
    [k \in DOMAIN cf \cup {key} |-> IF k = key THEN value ELSE cf[k]]


RECURSIVE sorted_keys(_)
\* the keys of a column family in the order its iterator yields them
sorted_keys(S) ==
    IF S = {} THEN <<>>
    ELSE LET m == CHOOSE k \in S : \A j \in S : bytes_leq(k, j)
         IN  <<m>> \o sorted_keys(S \ {m})

\* DBRawIterator::seek(key): the position of the first key >= key, one past
\* the end when there is none; seek_to_first is position 1
seek(keys, key) ==
    IF \E i \in 1..Len(keys) : bytes_leq(key, keys[i])
    THEN CHOOSE i \in 1..Len(keys) :
            /\ bytes_leq(key, keys[i])
            /\ \A j \in 1..(i - 1) : bytes_less(keys[j], key)
    ELSE Len(keys) + 1

RECURSIVE scan_loop(_, _, _, _, _)
\* while iter.valid() { buffer.extend_from_slice(value); count += 1; iter.next() }
scan_loop(cf, keys, i, buffer, count) ==
    IF i > Len(keys) THEN [buffer |-> buffer, count |-> count]
    ELSE scan_loop(cf, keys, i + 1, buffer \o cf[keys[i]], (count + 1) % U64Mod)

\* (mutant of envelope) the count of bytes in place of the count of records
envelope_counts_bytes(scan) == transmute(Len(scan.buffer)) \o scan.buffer

\* the envelope: the transmuted count, then the buffer
envelope(scan) == transmute(scan.count) \o scan.buffer

\* ----------------------------------------------------------- u64 arithmetic

\* a - b on u64: a build with overflow checks panics on underflow, one
\* without wraps
u64_sub(a, b) ==
    IF a >= b THEN [ok |-> TRUE, value |-> a - b]
    ELSE IF overflow_checks THEN [ok |-> FALSE, value |-> 0]
    ELSE [ok |-> TRUE, value |-> (a - b) + U64Mod]

\* a + b on u64, likewise
u64_add(a, b) ==
    IF a + b <= U64Max THEN [ok |-> TRUE, value |-> a + b]
    ELSE IF overflow_checks THEN [ok |-> FALSE, value |-> 0]
    ELSE [ok |-> TRUE, value |-> (a + b) % U64Mod]

\* ------------------------------------------------------------------ results

\* What a call of process_msg comes to: Ok(bytes) with the column families
\* as it leaves them, Err(message), or a panic that unwinds out of main.
Ok(bytes, d, e, f) ==
    [status |-> "ok", bytes |-> bytes, io |-> FALSE,
     default |-> d, events |-> e, fetch_failures |-> f]
Err(message, io) ==
    [status |-> "err", bytes |-> message, io |-> io,
     default |-> default_cf, events |-> events_cf, fetch_failures |-> fetch_failures_cf]
Panic ==
    [status |-> "panic", bytes |-> <<>>, io |-> FALSE,
     default |-> default_cf, events |-> events_cf, fetch_failures |-> fetch_failures_cf]

\* "invalid message length", "unknown command", and the engine's own message
InvalidLengthMsg == <<105, 110, 118, 97, 108, 105, 100, 32, 109, 101, 115, 115,
                      97, 103, 101, 32, 108, 101, 110, 103, 116, 104>>
UnknownCommandMsg == <<117, 110, 107, 110, 111, 119, 110, 32, 99, 111, 109,
                       109, 97, 110, 100>>
IoErrorMsg == <<73, 79, 32, 101, 114, 114, 111, 114>>

\* -------------------------------------------------------------------- Store

\* (mutant of put) a key that is already there keeps its value
put_keeps_first(payload, io_ok) ==
    LET kv == deserialize_kv(payload)
    IN  IF ~kv.ok THEN Panic
        ELSE IF ~io_ok THEN Err(IoErrorMsg, TRUE)
        ELSE IF kv.key \in DOMAIN default_cf
        THEN Ok(kv.key, default_cf, events_cf, fetch_failures_cf)
        ELSE Ok(kv.key, cf_put(default_cf, kv.key, kv.value), events_cf,
                fetch_failures_cf)

\* Store::put; io_ok: the engine carries the write out
put(payload, io_ok) ==
    LET kv == deserialize_kv(payload)
    IN  IF ~kv.ok THEN Panic
        ELSE IF ~io_ok THEN Err(IoErrorMsg, TRUE)
        ELSE Ok(kv.key, cf_put(default_cf, kv.key, kv.value), events_cf,
                fetch_failures_cf)

\* (mutant of get) a key that is not there is an error
get_absent_is_error(key, io_ok) ==
    IF ~io_ok THEN Err(IoErrorMsg, TRUE)
    ELSE IF key \in DOMAIN default_cf
         THEN Ok(default_cf[key], default_cf, events_cf, fetch_failures_cf)
         ELSE Err(IoErrorMsg, FALSE)

\* Store::get
get(key, io_ok) ==
    IF ~io_ok THEN Err(IoErrorMsg, TRUE)
    ELSE IF key \in DOMAIN default_cf
         THEN Ok(default_cf[key], default_cf, events_cf, fetch_failures_cf)
         ELSE Ok(<<>>, default_cf, events_cf, fetch_failures_cf)

\* (mutant of put_event) the ingest_ts of the inbound record is kept and returned
put_event_keeps_inbound(value, io_ok) ==
    LET micros == now
        key == to_string(micros)
        d == deserialize_event(value)
    IN  IF ~d.ok THEN Panic
        ELSE IF ~io_ok THEN Err(IoErrorMsg, TRUE)
        ELSE Ok(serialize_u64(d.value.ingest_ts), default_cf,
                cf_put(events_cf, key, serialize_event(d.value)), fetch_failures_cf)

\* (mutant of put_event) a key that is taken keeps its record
put_event_keeps_first(value, io_ok) ==
    LET micros == now
        key == to_string(micros)
        d == deserialize_event(value)
        event == [d.value EXCEPT !.ingest_ts = micros]
    IN  IF ~d.ok THEN Panic
        ELSE IF ~io_ok THEN Err(IoErrorMsg, TRUE)
        ELSE Ok(serialize_u64(micros), default_cf,
                IF key \in DOMAIN events_cf THEN events_cf
                ELSE cf_put(events_cf, key, serialize_event(event)),
                fetch_failures_cf)

\* (mutant of put_event) the stamp is the later of the inbound ingest_ts and
\* the clock
put_event_later_of_both(value, io_ok) ==
    LET micros == now
        key == to_string(micros)
        d == deserialize_event(value)
        event == [d.value EXCEPT !.ingest_ts =
                     IF d.value.ingest_ts > micros THEN d.value.ingest_ts ELSE micros]
    IN  IF ~d.ok THEN Panic
        ELSE IF ~io_ok THEN Err(IoErrorMsg, TRUE)
        ELSE Ok(serialize_u64(event.ingest_ts), default_cf,
                cf_put(events_cf, key, serialize_event(event)), fetch_failures_cf)

\* Store::put_event
put_event(value, io_ok) ==
    LET micros == now
        key == to_string(micros)
        d == deserialize_event(value)
        event == [d.value EXCEPT !.ingest_ts = micros]
    IN  IF ~d.ok THEN Panic
        ELSE IF ~io_ok THEN Err(IoErrorMsg, TRUE)
        ELSE Ok(serialize_u64(micros), default_cf,
                cf_put(events_cf, key, serialize_event(event)), fetch_failures_cf)

\* Store::get_events: where the iterator is put before the scan
get_events_seek(key, get_all, keys) ==
    IF get_all THEN [ok |-> TRUE, pos |-> 1]
    ELSE IF key = <<>>
    THEN LET micros == u64_sub(now, event_threshold_micros)
         IN  IF ~micros.ok THEN [ok |-> FALSE, pos |-> 0]
             ELSE [ok |-> TRUE, pos |-> seek(keys, to_string(micros.value))]
    ELSE LET s == deserialize_str(key)
             n == parse_u64(s.value)
             next == u64_add(n.value, 1)
         IN  IF ~s.ok \/ ~n.ok \/ ~next.ok THEN [ok |-> FALSE, pos |-> 0]
             ELSE [ok |-> TRUE, pos |-> seek(keys, to_string(next.value))]

\* Store::get_events
get_events(key, get_all, io_ok) ==
    IF ~io_ok THEN Err(IoErrorMsg, TRUE)
    ELSE LET keys == sorted_keys(DOMAIN events_cf)
             at == get_events_seek(key, get_all, keys)
         IN  IF ~at.ok THEN Panic
             ELSE Ok(envelope(scan_loop(events_cf, keys, at.pos, <<>>, 0)),
                     default_cf, events_cf, fetch_failures_cf)

\* (mutant of put_fetch_failure) the inbound record is stored as it came
put_fetch_failure_keeps_inbound(value, io_ok) ==
    LET micros == now
        key == to_string(micros)
        d == deserialize_fetch_failure(value)
    IN  IF ~d.ok THEN Panic
        ELSE IF ~io_ok THEN Err(IoErrorMsg, TRUE)
        ELSE Ok(<<>>, default_cf, events_cf,
                cf_put(fetch_failures_cf, key, serialize_fetch_failure(d.value)))

\* (mutant of put_fetch_failure) the record is put into the events namespace
put_fetch_failure_into_events(value, io_ok) ==
    LET micros == now
        key == to_string(micros)
        d == deserialize_fetch_failure(value)
        fetch_failure == [d.value EXCEPT !.ingest_ts = micros]
    IN  IF ~d.ok THEN Panic
        ELSE IF ~io_ok THEN Err(IoErrorMsg, TRUE)
        ELSE Ok(<<>>, default_cf,
                cf_put(events_cf, key, serialize_fetch_failure(fetch_failure)),
                fetch_failures_cf)

\* Store::put_fetch_failure
put_fetch_failure(value, io_ok) ==
    LET micros == now
        key == to_string(micros)
        d == deserialize_fetch_failure(value)
        failure == [d.value EXCEPT !.ingest_ts = micros]
    IN  IF ~d.ok THEN Panic
        ELSE IF ~io_ok THEN Err(IoErrorMsg, TRUE)
        ELSE Ok(<<>>, default_cf, events_cf,
                cf_put(fetch_failures_cf, key, serialize_fetch_failure(failure)))

\* Store::get_fetch_failures
get_fetch_failures(io_ok) ==
    IF ~io_ok THEN Err(IoErrorMsg, TRUE)
    ELSE LET keys == sorted_keys(DOMAIN fetch_failures_cf)
             micros == u64_sub(now, fetch_failure_threshold_micros)
         IN  IF ~micros.ok THEN Panic
             ELSE Ok(envelope(scan_loop(fetch_failures_cf, keys,
                                        seek(keys, to_string(micros.value)), <<>>, 0)),
                     default_cf, events_cf, fetch_failures_cf)

\* --------------------------------------------------------------- dispatcher

\* Command::from(u8): the commands by opcode, "None" for any other byte
Command_from(b) ==
    CASE b = 0 -> "Put"
      [] b = 1 -> "Get"
      [] b = 2 -> "PutEvent"
      [] b = 3 -> "GetEvents"
      [] b = 4 -> "GetAllEvents"
      [] b = 5 -> "PutFetchFailure"
      [] b = 6 -> "GetFetchFailures"
      [] OTHER -> "None"

\* the command a request selects ("Empty" for a request without opcode byte)
command_of(m) == IF Len(m) = 0 THEN "Empty" ELSE Command_from(m[1])

\* (mutant of process_msg) a byte that is no opcode is taken for a Get
process_msg_default_get(m, io_ok) ==
    IF Len(m) = 0 THEN Err(InvalidLengthMsg, FALSE)
    ELSE LET payload == Tail(m)
             command == Command_from(m[1])
         IN  CASE command = "Put" -> put(payload, io_ok)
               [] command = "PutEvent" -> put_event(payload, io_ok)
               [] command = "GetEvents" -> get_events(payload, FALSE, io_ok)
               [] command = "GetAllEvents" -> get_events(payload, TRUE, io_ok)
               [] command = "PutFetchFailure" -> put_fetch_failure(payload, io_ok)
               [] command = "GetFetchFailures" -> get_fetch_failures(io_ok)
               [] OTHER -> get(payload, io_ok)

\* process_msg
process_msg(m, io_ok) ==
    IF Len(m) = 0 THEN Err(InvalidLengthMsg, FALSE)
    ELSE LET payload == Tail(m)
             command == Command_from(m[1])
         IN  CASE command = "Put" -> put(payload, io_ok)
               [] command = "Get" -> get(payload, io_ok)
               [] command = "PutEvent" -> put_event(payload, io_ok)
               [] command = "GetEvents" -> get_events(payload, FALSE, io_ok)
               [] command = "GetAllEvents" -> get_events(payload, TRUE, io_ok)
               [] command = "PutFetchFailure" -> put_fetch_failure(payload, io_ok)
               [] command = "GetFetchFailures" -> get_fetch_failures(io_ok)
               [] OTHER -> Err(UnknownCommandMsg, FALSE)


\* ----------------------------------------------------------------- requests

\* keys and values of Put and Get
Keys == {<<97>>, <<98>>}
Values == {<<>>, <<120>>}
\* what a client puts into the fields of a record it sends
EventTs == {1, 2}
InboundIngestTs == {0, 7}
\* a resume cursor is a timestamp a client has seen, or any other string
Cursors == {to_string(c) : c \in ClockValues \cup {U64Max}} \cup {<<120>>}

PutRequests ==
    {<<0>> \o serialize_kv(k, v) : k \in Keys, v \in Values} \cup {<<0, 1>>}
GetRequests == {<<1>> \o k : k \in Keys}
PutEventRequests ==
    {<<2>> \o serialize_event([event_ts |-> e, ingest_ts |-> i]) :
        e \in EventTs, i \in InboundIngestTs} \cup {<<2>>}
GetEventsRequests ==
    {<<3>>} \cup {<<3>> \o serialize_bytes(c) : c \in Cursors} \cup {<<3, 1>>}
GetAllEventsRequests == {<<4>>, <<4, 1>>}
PutFetchFailureRequests ==
    {<<5>> \o serialize_fetch_failure([app |-> 0, ingest_ts |-> i]) :
        i \in InboundIngestTs} \cup {<<5>>}
GetFetchFailuresRequests == {<<6>>, <<6, 1>>}
OtherRequests == {<<>>, <<9>>, <<52>>}

Requests ==
    PutRequests \cup GetRequests \cup PutEventRequests \cup GetEventsRequests
    \cup GetAllEventsRequests \cup PutFetchFailureRequests
    \cup GetFetchFailuresRequests \cup OtherRequests

\* the retention windows a Store is constructed with: <<event, fetch failure>>
Thresholds == {<<1, 2>>, <<MaxClock + 1, MaxClock + 2>>}

\* --------------------------------------------------------------------- main

\* history: no record has been replaced yet
NoRecord == [cf |-> "none", key |-> <<>>, value |-> <<>>]

\* the callers that share one Store, and a caller that is in no call
Callers == 1..MaxCallers
Idle == [pc |-> "idle", inbound |-> <<>>, micros |-> 0, key |-> <<>>,
         value |-> <<>>]

Init ==
    /\ pc = "recv"
    /\ msg = <<>>
    /\ reply = <<>>
    /\ now \in ClockValues
    /\ default_cf = EmptyCf
    /\ events_cf = EmptyCf
    /\ fetch_failures_cf = EmptyCf
    /\ \E t \in Thresholds :
          /\ event_threshold_micros = t[1]
          /\ fetch_failure_threshold_micros = t[2]
    /\ overflow_checks \in BOOLEAN
    /\ io_err = FALSE
    /\ last_put = EmptyCf
    /\ last_put_event = [set |-> FALSE, clock |-> 0, ts |-> 0]
    /\ received = 0
    /\ sent = 0
    /\ overwritten = NoRecord
    /\ callers = [c \in Callers |-> Idle]
    /\ observed = {}
    /\ calls = 0

\* the callers of a Store that is shared, which main never has
Shared == <<callers, observed, calls>>

Config == <<event_threshold_micros, fetch_failure_threshold_micros, overflow_checks>>

\* time passes between two requests
Tick ==
    /\ pc = "recv"
    /\ \E t \in ClockValues : t > now /\ now' = t
    /\ UNCHANGED <<pc, msg, reply, default_cf, events_cf, fetch_failures_cf,
                   Config, io_err, last_put, last_put_event, received,
                   sent, overwritten, Shared>>

\* sock.recv(&mut msg, 0).is_ok(): a request arrives (a recv that fails is
\* logged and tried again, which changes nothing here)
Recv ==
    /\ pc = "recv"
    /\ \E m \in Requests : msg' = m
    /\ pc' = "dispatch"
    /\ received < MaxRequests
    /\ received' = received + 1
    /\ UNCHANGED <<reply, now, default_cf, events_cf, fetch_failures_cf,
                   Config, io_err, last_put, last_put_event,
                   sent, overwritten, Shared>>

\* the history of the Puts and PutEvents that succeeded
History(r) ==
    /\ last_put' =
          IF command_of(msg) = "Put" /\ r.status = "ok"
          THEN LET kv == deserialize_kv(Tail(msg))
               IN  cf_put(last_put, kv.key, kv.value)
          ELSE last_put
    /\ last_put_event' =
          IF command_of(msg) = "PutEvent" /\ r.status = "ok"
          THEN [set |-> TRUE, clock |-> now, ts |-> le_value(r.bytes)]
          ELSE last_put_event
    /\ overwritten' =
          LET key == to_string(now)
          IN  IF /\ command_of(msg) = "PutEvent" /\ r.status = "ok"
                 /\ key \in DOMAIN events_cf
              THEN [cf |-> "events", key |-> key, value |-> events_cf[key]]
              ELSE IF /\ command_of(msg) = "PutFetchFailure" /\ r.status = "ok"
                      /\ key \in DOMAIN fetch_failures_cf
              THEN [cf |-> "fetch_failures", key |-> key,
                    value |-> fetch_failures_cf[key]]
              ELSE overwritten

\* (mutant of response) every payload starts with the Ok byte
response_always_ok(r) ==
    IF r.status = "ok"
    THEN <<OkByte>> \o r.bytes
    ELSE <<OkByte>> \o serialize_bytes(r.bytes)

\* the payload main builds from the result of process_msg: the Ok byte and
\* the value, or the error byte and the serialized error message
response(r) ==
    IF r.status = "ok"
    THEN <<OkByte>> \o r.bytes
    ELSE <<ErrorByte>> \o serialize_bytes(r.bytes)

\* main's match on the result of process_msg: the payload is handed to
\* sock.send (taken to succeed); a panic ends main
Respond(r) ==
    /\ IF r.status = "panic"
       THEN /\ pc' = "crashed"
            /\ reply' = reply
            /\ sent' = sent
       ELSE /\ pc' = "recv"
            /\ reply' = response(r)
            /\ sent' = sent + 1
    /\ default_cf' = r.default
    /\ events_cf' = r.events
    /\ fetch_failures_cf' = r.fetch_failures
    /\ io_err' = r.io
    /\ History(r)
    /\ UNCHANGED <<msg, now, Config, received, Shared>>

\* main has a request of the given command in hand
Dispatched(command) == pc = "dispatch" /\ command_of(msg) = command

\* One action per arm of process_msg: main calls process_msg on the request
\* and sends what comes of it.  io_ok: whether the engine carries out what
\* the arm asks of it.
InvalidLength ==
    /\ Dispatched("Empty")
    /\ Respond(process_msg(msg, TRUE))

Put ==
    /\ Dispatched("Put")
    /\ \E io_ok \in BOOLEAN : Respond(process_msg(msg, io_ok))

Get ==
    /\ Dispatched("Get")
    /\ \E io_ok \in BOOLEAN : Respond(process_msg(msg, io_ok))

PutEvent ==
    /\ Dispatched("PutEvent")
    /\ \E io_ok \in BOOLEAN : Respond(process_msg(msg, io_ok))

GetEvents ==
    /\ Dispatched("GetEvents")
    /\ \E io_ok \in BOOLEAN : Respond(process_msg(msg, io_ok))

GetAllEvents ==
    /\ Dispatched("GetAllEvents")
    /\ \E io_ok \in BOOLEAN : Respond(process_msg(msg, io_ok))

PutFetchFailure ==
    /\ Dispatched("PutFetchFailure")
    /\ \E io_ok \in BOOLEAN : Respond(process_msg(msg, io_ok))

GetFetchFailures ==
    /\ Dispatched("GetFetchFailures")
    /\ \E io_ok \in BOOLEAN : Respond(process_msg(msg, io_ok))

UnknownCommand ==
    /\ Dispatched("None")
    /\ Respond(process_msg(msg, TRUE))

Next ==
    \/ Tick
    \/ Recv
    \/ InvalidLength
    \/ Put
    \/ Get
    \/ PutEvent
    \/ GetEvents
    \/ GetAllEvents
    \/ PutFetchFailure
    \/ GetFetchFailures
    \/ UnknownCommand

Spec == Init /\ [][Next]_vars


\* ------------------------------------------------- what the properties use

\* main has answered a request of the given command and is back at recv
Replied(command) == pc = "recv" /\ command_of(msg) = command

\* the reply that carries an engine failure
EngineErrorReply == <<ErrorByte>> \o serialize_bytes(IoErrorMsg)

\* the count and the body of the envelope in an Ok reply
reply_count == le_value(SubSeq(reply, 2, 1 + U64Len))
reply_body == SubSeq(reply, 2 + U64Len, Len(reply))

RECURSIVE chunks(_, _)
\* a body cut into records of n bytes
chunks(body, n) ==
    IF Len(body) < n THEN <<>>
    ELSE <<SubSeq(body, 1, n)>> \o chunks(SubSeq(body, n + 1, Len(body)), n)

\* the events the namespace holds, and those a reply returns
stored_events == {deserialize_event(events_cf[k]).value : k \in DOMAIN events_cf}
replied_events ==
    LET c == chunks(reply_body, EventLen)
    IN  {deserialize_event(c[i]).value : i \in 1..Len(c)}

RECURSIVE by_ingest_ts(_)
\* a set of events in ascending order of ingest_ts (as numbers), serialized
\* one after the other
by_ingest_ts(S) ==
    IF S = {} THEN <<>>
    ELSE LET m == CHOOSE e \in S : \A o \in S : e.ingest_ts <= o.ingest_ts
         IN  serialize_event(m) \o by_ingest_ts(S \ {m})

\* the Ok reply that returns exactly the events of S, oldest first
events_reply(S) == <<OkByte>> \o serialize_u64(Cardinality(S)) \o by_ingest_ts(S)

\* a request whose payload does not decode into what its command parses
Undecodable(m) ==
    LET c == command_of(m)
        payload == Tail(m)
    IN  \/ c = "Put" /\ ~deserialize_kv(payload).ok
        \/ c = "PutEvent" /\ ~deserialize_event(payload).ok
        \/ c = "PutFetchFailure" /\ ~deserialize_fetch_failure(payload).ok
        \/ /\ c = "GetEvents"
           /\ payload # <<>>
           /\ \/ ~deserialize_str(payload).ok
              \/ ~parse_u64(deserialize_str(payload).value).ok

\* ------------------------------------------------- a Store that is shared
\* Store's methods take &self and the engine handle may be used from several
\* threads: the callers below run put_event, put_fetch_failure and the scans
\* on one Store, statement by statement, in any interleaving.

\* what main's loop owns, which the callers of a shared Store leave alone
MainVars == <<pc, msg, reply, default_cf, Config, io_err, last_put,
              last_put_event, received, sent, overwritten>>

\* the records the callers submit
SharedEvents ==
    {serialize_event([event_ts |-> t, ingest_ts |-> i]) :
        t \in EventTs, i \in InboundIngestTs}
SharedFetchFailures ==
    {serialize_fetch_failure([app |-> 0, ingest_ts |-> i]) : i \in InboundIngestTs}

\* (mutant of written_value) the bytes written are those that came in
written_value_inbound(local) == local.inbound

\* the bytes handed to put_cf: the `value` that shadows the argument, the
\* serialized stamped record
written_value(local) == local.value

\* the wall clock moves while calls are under way
SharedTick ==
    /\ \E t \in ClockValues : t > now /\ now' = t
    /\ UNCHANGED <<MainVars, events_cf, fetch_failures_cf, Shared>>

\* put_event, first statements: the clock is read and the key formatted
put_event_clock(c) ==
    /\ callers[c].pc = "idle"
    /\ calls < MaxCalls
    /\ calls' = calls + 1
    /\ \E value \in SharedEvents :
          callers' = [callers EXCEPT ![c] =
              [pc |-> "event_stamp", inbound |-> value, micros |-> now,
               key |-> to_string(now), value |-> <<>>]]
    /\ UNCHANGED <<MainVars, now, events_cf, fetch_failures_cf, observed>>

\* put_event: the record is decoded, stamped and serialized again
put_event_stamp(c) ==
    /\ callers[c].pc = "event_stamp"
    /\ LET event == [deserialize_event(callers[c].inbound).value
                        EXCEPT !.ingest_ts = callers[c].micros]
       IN  callers' = [callers EXCEPT ![c].pc = "event_write",
                                      ![c].value = serialize_event(event)]
    /\ UNCHANGED <<MainVars, now, events_cf, fetch_failures_cf, observed, calls>>

\* put_event: the one put_cf, which the engine carries out or fails, and the
\* return
put_event_write(c) ==
    /\ callers[c].pc = "event_write"
    /\ \E io_ok \in BOOLEAN :
          events_cf' = IF io_ok
                       THEN cf_put(events_cf, callers[c].key,
                                   written_value(callers[c]))
                       ELSE events_cf
    /\ callers' = [callers EXCEPT ![c] = Idle]
    /\ UNCHANGED <<MainVars, now, fetch_failures_cf, observed, calls>>

\* put_fetch_failure, first statements: the clock is read and the key formatted
put_fetch_failure_clock(c) ==
    /\ callers[c].pc = "idle"
    /\ calls < MaxCalls
    /\ calls' = calls + 1
    /\ \E value \in SharedFetchFailures :
          callers' = [callers EXCEPT ![c] =
              [pc |-> "failure_stamp", inbound |-> value, micros |-> now,
               key |-> to_string(now), value |-> <<>>]]
    /\ UNCHANGED <<MainVars, now, events_cf, fetch_failures_cf, observed>>

\* put_fetch_failure: the record is decoded, stamped and serialized again
put_fetch_failure_stamp(c) ==
    /\ callers[c].pc = "failure_stamp"
    /\ LET failure == [deserialize_fetch_failure(callers[c].inbound).value
                          EXCEPT !.ingest_ts = callers[c].micros]
       IN  callers' = [callers EXCEPT ![c].pc = "failure_write",
                                      ![c].value = serialize_fetch_failure(failure)]
    /\ UNCHANGED <<MainVars, now, events_cf, fetch_failures_cf, observed, calls>>

\* put_fetch_failure: the one put_cf and the return
put_fetch_failure_write(c) ==
    /\ callers[c].pc = "failure_write"
    /\ \E io_ok \in BOOLEAN :
          fetch_failures_cf' = IF io_ok
                               THEN cf_put(fetch_failures_cf, callers[c].key,
                                           written_value(callers[c]))
                               ELSE fetch_failures_cf
    /\ callers' = [callers EXCEPT ![c] = Idle]
    /\ UNCHANGED <<MainVars, now, events_cf, observed, calls>>

\* get_events: a caller's iterator walks the events namespace as it is
scan_events(c) ==
    /\ callers[c].pc = "idle"
    /\ observed' = {<<"events", k, events_cf[k]>> : k \in DOMAIN events_cf}
    /\ observed' # observed
    /\ UNCHANGED <<MainVars, now, events_cf, fetch_failures_cf, callers, calls>>

\* get_fetch_failures: a caller's iterator walks the fetch_failures namespace
scan_fetch_failures(c) ==
    /\ callers[c].pc = "idle"
    /\ observed' = {<<"fetch_failures", k, fetch_failures_cf[k]>> :
                       k \in DOMAIN fetch_failures_cf}
    /\ observed' # observed
    /\ UNCHANGED <<MainVars, now, events_cf, fetch_failures_cf, callers, calls>>

SharedNext ==
    \/ SharedTick
    \/ \E c \in Callers :
          \/ put_event_clock(c)
          \/ put_event_stamp(c)
          \/ put_event_write(c)
          \/ put_fetch_failure_clock(c)
          \/ put_fetch_failure_stamp(c)
          \/ put_fetch_failure_write(c)
          \/ scan_events(c)
          \/ scan_fetch_failures(c)

SharedSpec == Init /\ [][SharedNext]_vars

\* --------------------------------------------------------------- properties

\* C1: a Get of a key that a Put has written returns the value of the last
\* successful Put of that key, whatever was served in between (when the
\* engine fails the lookup, the reply is the engine's error).
C1_GetReturnsLastPut ==
    (Replied("Get") /\ Tail(msg) \in DOMAIN last_put)
        => reply = IF io_err THEN EngineErrorReply
                   ELSE <<OkByte>> \o last_put[Tail(msg)]

\* C1 witness: both keys have been written, an event is stored, and a Get
\* is answered with the non-empty value last put
C1_Witness ==
    /\ Replied("Get")
    /\ DOMAIN last_put = Keys
    /\ events_cf # EmptyCf
    /\ reply = <<OkByte, 120>>

\* C2: a Get of a key no Put has written is answered Ok with no bytes; the
\* only error it can come to is the engine's own.
C2_GetAbsentIsEmpty ==
    (Replied("Get") /\ Tail(msg) \notin DOMAIN last_put)
        => reply = IF io_err THEN EngineErrorReply ELSE <<OkByte>>

\* C2 witness: a Get of an unwritten key is answered Ok and empty while the
\* store holds another key and an event
C2_Witness ==
    /\ Replied("Get")
    /\ Tail(msg) \notin DOMAIN last_put
    /\ last_put # EmptyCf
    /\ events_cf # EmptyCf
    /\ reply = <<OkByte>>

\* C3 (as claimed): a GetEvents without cursor that returns, returns exactly
\* the stored events with ingest_ts >= now - T, oldest first.
C3_ThresholdScanExact ==
    [][(Dispatched("GetEvents") /\ Tail(msg) = <<>> /\ pc' = "recv" /\ ~io_err')
        => reply' = events_reply({e \in stored_events :
                        e.ingest_ts >= now - event_threshold_micros})]_vars

\* C4 (as claimed): a GetEvents resumed from the timestamp c of a stored
\* event never returns a record whose ingest_ts is c.
C4_ResumeExcludesCursor ==
    (/\ Replied("GetEvents")
     /\ Tail(msg) # <<>>
     /\ ~Undecodable(msg)
     /\ deserialize_str(Tail(msg)).value \in DOMAIN events_cf
     /\ reply[1] = OkByte)
        => \A e \in replied_events :
              e.ingest_ts # parse_u64(deserialize_str(Tail(msg)).value).value

\* C5 (as claimed): GetAllEvents returns every stored event, whatever its
\* age and whatever the payload, in ascending order of ingest_ts.
C5_GetAllAscending ==
    (Replied("GetAllEvents") /\ ~io_err) => reply = events_reply(stored_events)

\* C6: under the (monotone) clock, a PutEvent served after the clock has
\* advanced past the previous PutEvent's reading returns a strictly greater
\* ingest_ts than that PutEvent returned.
C6_IngestTsIncreases ==
    [][(/\ Dispatched("PutEvent")
        /\ pc' = "recv"
        /\ reply'[1] = OkByte
        /\ last_put_event.set
        /\ now > last_put_event.clock)
        => le_value(Tail(reply')) > last_put_event.ts]_vars

\* C6 witness: a second PutEvent has succeeded at a later clock reading
C6_Witness ==
    /\ Replied("PutEvent")
    /\ reply[1] = OkByte
    /\ Cardinality(DOMAIN events_cf) >= 2
    /\ last_put_event.ts = now

\* C7: the reply to a scan (GetEvents, GetAllEvents, GetFetchFailures) that
\* returns is, unless the engine failed, an Ok envelope whose 8-byte count is
\* the number of records in its body, each a stored record; over an empty
\* namespace it is the count 0 and no body.
C7_EnvelopeCount ==
    \A c \in {"GetEvents", "GetAllEvents", "GetFetchFailures"} :
        (Replied(c) /\ ~io_err) =>
            LET cf == IF c = "GetFetchFailures" THEN fetch_failures_cf ELSE events_cf
                n == IF c = "GetFetchFailures" THEN FetchFailureLen ELSE EventLen
                records == chunks(reply_body, n)
            IN  /\ reply[1] = OkByte
                /\ Len(reply) >= 1 + U64Len
                /\ Len(reply_body) = n * Len(records)
                /\ reply_count = Len(records)
                /\ \A i \in 1..Len(records) : \E k \in DOMAIN cf : cf[k] = records[i]
                /\ cf = EmptyCf => reply = <<OkByte>> \o serialize_u64(0)

\* C7 witness: a scan has returned an envelope of two records
C7_Witness ==
    /\ Replied("GetEvents")
    /\ reply[1] = OkByte
    /\ reply_count = 2
    /\ Len(reply_body) = 2 * EventLen

\* C8: an empty request and a request whose first byte is not an opcode
\* 0..6 are answered with an error, and no namespace is written.
C8_ProtocolErrorWritesNothing ==
    [][(pc = "dispatch" /\ (msg = <<>> \/ msg[1] \notin 0..6))
        => /\ pc' = "recv"
           /\ reply'[1] = ErrorByte
           /\ UNCHANGED <<default_cf, events_cf, fetch_failures_cf>>]_vars

\* C8 witness: opcode 9 was answered with the error while the store holds
\* data in every namespace
C8_Witness ==
    /\ pc = "recv"
    /\ msg = <<9>>
    /\ reply = <<ErrorByte>> \o serialize_bytes(UnknownCommandMsg)
    /\ default_cf # EmptyCf
    /\ events_cf # EmptyCf
    /\ fetch_failures_cf # EmptyCf

\* C9 (as claimed): a request whose payload does not decode is answered
\* with an error and the process goes on.
C9_UndecodableIsError ==
    (Undecodable(msg) /\ pc # "dispatch") => (pc = "recv" /\ reply[1] = ErrorByte)

\* C10 (as claimed): whatever comes of a request, main is back at receiving
\* afterwards.
C10_BackToRecv == [][pc = "dispatch" => pc' = "recv"]_vars


\* C11: every record of the events and of the fetch_failures namespace
\* carries as ingest_ts the decimal value of the key it is stored under, and
\* that value is a reading the clock has shown (none is ahead of the clock).
C11_IngestTsIsKey ==
    /\ \A k \in DOMAIN events_cf :
          /\ parse_u64(k).ok
          /\ k = to_string(parse_u64(k).value)
          /\ deserialize_event(events_cf[k]).ok
          /\ deserialize_event(events_cf[k]).value.ingest_ts = parse_u64(k).value
          /\ parse_u64(k).value \in MinClock..now
    /\ \A k \in DOMAIN fetch_failures_cf :
          /\ parse_u64(k).ok
          /\ k = to_string(parse_u64(k).value)
          /\ deserialize_fetch_failure(fetch_failures_cf[k]).ok
          /\ deserialize_fetch_failure(fetch_failures_cf[k]).value.ingest_ts
                = parse_u64(k).value
          /\ parse_u64(k).value \in MinClock..now

\* C11 witness: a PutEvent whose record came with ingest_ts 7 has been
\* stored, two events and a fetch failure are in the store
C11_Witness ==
    /\ Replied("PutEvent")
    /\ reply[1] = OkByte
    /\ deserialize_event(Tail(msg)).value.ingest_ts = 7
    /\ Cardinality(DOMAIN events_cf) = 2
    /\ fetch_failures_cf # EmptyCf

\* the fetch failures the namespace holds
stored_failures ==
    {deserialize_fetch_failure(fetch_failures_cf[k]).value :
        k \in DOMAIN fetch_failures_cf}

RECURSIVE failures_by_ingest_ts(_)
\* a set of fetch failures in ascending order of ingest_ts (as numbers),
\* serialized one after the other
failures_by_ingest_ts(S) ==
    IF S = {} THEN <<>>
    ELSE LET m == CHOOSE f \in S : \A o \in S : f.ingest_ts <= o.ingest_ts
         IN  serialize_fetch_failure(m) \o failures_by_ingest_ts(S \ {m})

\* C12 (as claimed): a GetFetchFailures that returns, whatever its payload,
\* returns exactly the stored fetch failures with
\* ingest_ts >= now - fetch_failure_threshold, oldest first, and nothing of
\* the events namespace.
C12_FetchFailureScanExact ==
    [][(Dispatched("GetFetchFailures") /\ pc' = "recv" /\ ~io_err')
        => reply' = <<OkByte>>
                \o serialize_u64(Cardinality(
                      {f \in stored_failures :
                          f.ingest_ts >= now - fetch_failure_threshold_micros}))
                \o failures_by_ingest_ts(
                      {f \in stored_failures :
                          f.ingest_ts >= now - fetch_failure_threshold_micros})]_vars

\* C13: the payload sent for a request starts with the Ok byte exactly when
\* the operation succeeded, and is then followed by the result bytes of the
\* operation; it starts with the error byte exactly when the operation failed
\* (empty request, unknown opcode, engine failure), and is then followed by
\* the serialized error string and nothing else.  No other first byte occurs.
C13_StatusByte ==
    (pc = "recv" /\ sent > 0) =>
        LET c == command_of(msg)
            payload == Tail(msg)
            body == Tail(reply)
            failed == io_err \/ c \in {"Empty", "None"}
            n == IF c = "GetFetchFailures" THEN FetchFailureLen ELSE EventLen
        IN  /\ reply[1] \in {OkByte, ErrorByte}
            /\ reply[1] = ErrorByte <=> failed
            /\ failed =>
                  /\ deserialize_str(body).ok
                  /\ read_bytes(body).rest = <<>>
                  /\ deserialize_str(body).value =
                        IF c = "Empty" THEN InvalidLengthMsg
                        ELSE IF c = "None" THEN UnknownCommandMsg
                        ELSE IoErrorMsg
            /\ ~failed =>
                  /\ c = "Put" => body = deserialize_kv(payload).key
                  /\ c = "Get" =>
                        body = IF payload \in DOMAIN default_cf
                               THEN default_cf[payload] ELSE <<>>
                  /\ c = "PutEvent" =>
                        /\ Len(body) = U64Len
                        /\ to_string(le_value(body)) \in DOMAIN events_cf
                  /\ c = "PutFetchFailure" => body = <<>>
                  /\ c \in {"GetEvents", "GetAllEvents", "GetFetchFailures"} =>
                        /\ Len(body) >= U64Len
                        /\ Len(reply_body) = n * reply_count

\* C13 witness: a request has been answered with the Ok byte, and the one
\* after it, which the engine failed, with the error byte
C13_Witness ==
    /\ Replied("PutEvent")
    /\ sent >= 2
    /\ io_err
    /\ reply[1] = ErrorByte
    /\ events_cf # EmptyCf

\* C14 (as claimed): a GetEvents resumed from a decodable cursor c that
\* returns, returns exactly the stored events with ingest_ts > c, oldest
\* first, whatever the retention threshold.
C14_ResumeExact ==
    (/\ Replied("GetEvents")
     /\ Tail(msg) # <<>>
     /\ ~Undecodable(msg)
     /\ ~io_err)
        => reply = events_reply({e \in stored_events :
                        e.ingest_ts > parse_u64(deserialize_str(Tail(msg)).value).value})

\* C15: a PutEvent (a PutFetchFailure) that succeeds at a clock value at
\* which an earlier one has written lands on the same key: the namespace
\* keeps the keys it had, the key holds the record of the later call and
\* every other key keeps its record; and a scan that returns afterwards
\* returns no record that has been replaced.
C15_LastWriteWins ==
    [][LET key == to_string(now)
           wrote == pc' = "recv" /\ ~io_err'
       IN  /\ (Dispatched("PutEvent") /\ wrote /\ key \in DOMAIN events_cf) =>
                 /\ DOMAIN events_cf' = DOMAIN events_cf
                 /\ events_cf'[key] = serialize_event(
                       [event_ts |-> deserialize_event(Tail(msg)).value.event_ts,
                        ingest_ts |-> now])
                 /\ \A k \in DOMAIN events_cf \ {key} : events_cf'[k] = events_cf[k]
           /\ (Dispatched("PutFetchFailure") /\ wrote
                    /\ key \in DOMAIN fetch_failures_cf) =>
                 /\ DOMAIN fetch_failures_cf' = DOMAIN fetch_failures_cf
                 /\ fetch_failures_cf'[key] = serialize_fetch_failure(
                       [app |-> deserialize_fetch_failure(Tail(msg)).value.app,
                        ingest_ts |-> now])
                 /\ \A k \in DOMAIN fetch_failures_cf \ {key} :
                       fetch_failures_cf'[k] = fetch_failures_cf[k]
           /\ ((Dispatched("GetEvents") \/ Dispatched("GetAllEvents")) /\ wrote
                    /\ overwritten.cf = "events"
                    /\ events_cf[overwritten.key] # overwritten.value) =>
                 LET records == chunks(reply_body', EventLen)
                 IN  \A i \in 1..Len(records) : records[i] # overwritten.value
      ]_vars

\* C15 witness: a PutEvent has replaced the record of an earlier PutEvent at
\* the same clock value by a different one, and a scan has since returned the
\* record that is stored
C15_Witness ==
    /\ Replied("GetAllEvents")
    /\ reply[1] = OkByte
    /\ reply_count >= 1
    /\ overwritten.cf = "events"
    /\ events_cf[overwritten.key] # overwritten.value

\* a PutEvent or PutFetchFailure request with the ingest_ts of its record
\* replaced by i
with_ingest_ts(m, i) ==
    IF command_of(m) = "PutEvent"
    THEN <<m[1]>> \o serialize_event(
            [deserialize_event(Tail(m)).value EXCEPT !.ingest_ts = i])
    ELSE <<m[1]>> \o serialize_fetch_failure(
            [deserialize_fetch_failure(Tail(m)).value EXCEPT !.ingest_ts = i])

\* the values tried for the ingest_ts of a submitted record: the two that
\* requests come with and the largest u64
IngestTsVariants == InboundIngestTs \cup {U64Max}

\* C16: the ingest_ts a record is submitted with has no influence: whatever a
\* PutEvent or PutFetchFailure request does to the three namespaces and
\* whatever is sent for it, the same request with any other ingest_ts in its
\* record, served in the same state, does and sends the same.  (The state
\* after the step being the same, so is everything that follows.)
C16_InboundIngestTsIgnored ==
    [][(/\ pc = "dispatch"
        /\ command_of(msg) \in {"PutEvent", "PutFetchFailure"}
        /\ ~Undecodable(msg))
        => \A i \in IngestTsVariants :
              \E io_ok \in BOOLEAN :
                  LET r == process_msg(with_ingest_ts(msg, i), io_ok)
                  IN  /\ r.status # "panic"
                      /\ pc' = "recv"
                      /\ reply' = response(r)
                      /\ default_cf' = r.default
                      /\ events_cf' = r.events
                      /\ fetch_failures_cf' = r.fetch_failures]_vars

\* C16 witness: a PutFetchFailure whose record came with ingest_ts 7 has been
\* served after a PutEvent, and the record stored for it is one that does
\* not carry 7
C16_Witness ==
    /\ Replied("PutFetchFailure")
    /\ deserialize_fetch_failure(Tail(msg)).value.ingest_ts = 7
    /\ reply = <<OkByte>>
    /\ last_put_event.set
    /\ fetch_failures_cf # EmptyCf
    /\ \A k \in DOMAIN fetch_failures_cf :
          deserialize_fetch_failure(fetch_failures_cf[k]).value.ingest_ts # 7

\* cf2 is cf with the one key written: no other key added, none removed, no
\* other record changed
wrote_one_key(cf, cf2, key) ==
    /\ DOMAIN cf2 = DOMAIN cf \cup {key}
    /\ \A k \in DOMAIN cf \ {key} : cf2[k] = cf[k]

\* C17: a Put changes at most the default namespace, a PutEvent at most
\* events, a PutFetchFailure at most fetch_failures, and when it succeeds it
\* adds or overwrites exactly one key there (the key of the pair, the decimal
\* string of the clock); Get, GetEvents, GetAllEvents, GetFetchFailures and
\* the requests that are refused leave the three namespaces as they are; no
\* step removes a key.
C17_Frame ==
    [][LET c == command_of(msg)
           done == pc' = "recv" /\ ~io_err'
           writes == {"Put", "PutEvent", "PutFetchFailure"}
       IN  /\ DOMAIN default_cf \subseteq DOMAIN default_cf'
           /\ DOMAIN events_cf \subseteq DOMAIN events_cf'
           /\ DOMAIN fetch_failures_cf \subseteq DOMAIN fetch_failures_cf'
           /\ (pc = "dispatch" /\ c = "Put" /\ done) =>
                 wrote_one_key(default_cf, default_cf', deserialize_kv(Tail(msg)).key)
           /\ (pc = "dispatch" /\ c = "PutEvent" /\ done) =>
                 wrote_one_key(events_cf, events_cf', to_string(now))
           /\ (pc = "dispatch" /\ c = "PutFetchFailure" /\ done) =>
                 wrote_one_key(fetch_failures_cf, fetch_failures_cf', to_string(now))
           /\ ~(pc = "dispatch" /\ c = "Put" /\ done) => default_cf' = default_cf
           /\ ~(pc = "dispatch" /\ c = "PutEvent" /\ done) => events_cf' = events_cf
           /\ ~(pc = "dispatch" /\ c = "PutFetchFailure" /\ done) =>
                 fetch_failures_cf' = fetch_failures_cf
      ]_vars

\* C17 witness: the three namespaces hold records and a PutFetchFailure has
\* just added a second key to fetch_failures
C17_Witness ==
    /\ Replied("PutFetchFailure")
    /\ reply = <<OkByte>>
    /\ default_cf # EmptyCf
    /\ events_cf # EmptyCf
    /\ Cardinality(DOMAIN fetch_failures_cf) = 2

\* C18 (as claimed): requests are served one at a time and each gets its
\* response: at most one received request is without a response, and that
\* one is the request main is serving; a request is received only when every
\* earlier one has been answered.
C18_OneResponseEach ==
    /\ sent <= received
    /\ received <= sent + 1
    /\ received = sent + 1 => pc = "dispatch"

\* C19: with callers that share the Store and whose put_event and
\* put_fetch_failure calls interleave, statement by statement, with each
\* other and with scans, every record a scan walks carries as ingest_ts the
\* decimal value of the key it is found under, and so does every record of
\* the two namespaces at every moment: a key becomes visible with its stamped
\* record, in the one write of the call.
C19_ReaderSeesStamped ==
    /\ \A o \in observed :
          /\ parse_u64(o[2]).ok
          /\ o[1] = "events" =>
                deserialize_event(o[3]).value.ingest_ts = parse_u64(o[2]).value
          /\ o[1] = "fetch_failures" =>
                deserialize_fetch_failure(o[3]).value.ingest_ts = parse_u64(o[2]).value
    /\ \A k \in DOMAIN events_cf :
          deserialize_event(events_cf[k]).value.ingest_ts = parse_u64(k).value
    /\ \A k \in DOMAIN fetch_failures_cf :
          deserialize_fetch_failure(fetch_failures_cf[k]).value.ingest_ts
             = parse_u64(k).value

\* C19 witness: a scan has walked an event written by one caller while
\* another caller, which read the clock before it moved, is about to write
\* a record that came with ingest_ts 7
C19_Witness ==
    /\ \E o \in observed : o[1] = "events"
    /\ \E c \in Callers :
          /\ callers[c].pc = "event_write"
          /\ callers[c].micros < now
          /\ deserialize_event(callers[c].inbound).value.ingest_ts = 7

\* C20 (as claimed): serving a GetEvents without cursor or a
\* GetFetchFailures, the cutoff now - threshold does not go below zero;
\* serving a GetEvents with a decodable cursor, cursor + 1 does not go above
\* the largest u64; and each such request completes: unless the engine
\* fails, an Ok envelope of a count and count records is sent for it.
C20_NoOverflow ==
    [][LET c == command_of(msg)
           n == IF c = "GetFetchFailures" THEN FetchFailureLen ELSE EventLen
       IN  (/\ pc = "dispatch"
            /\ c \in {"GetEvents", "GetFetchFailures"}
            /\ ~Undecodable(msg))
           => /\ (c = "GetEvents" /\ Tail(msg) = <<>>) =>
                    now >= event_threshold_micros
              /\ c = "GetFetchFailures" => now >= fetch_failure_threshold_micros
              /\ (c = "GetEvents" /\ Tail(msg) # <<>>) =>
                    parse_u64(deserialize_str(Tail(msg)).value).value + 1 <= U64Max
              /\ pc' = "recv"
              /\ ~io_err' =>
                    /\ reply'[1] = OkByte
                    /\ Len(reply') >= 1 + U64Len
                    /\ Len(reply_body') = n * reply_count'
      ]_vars

====
